---- MODULE Spec2Model ----
(***************************************************************************)
(* Model of src/app.py: the drug-interaction chatbot.                      *)
(*                                                                         *)
(* Text is a sequence of characters.  A Hangul syllable is written as one  *)
(* character "~<romanisation>" (U+C815 is "~jeong"); ASCII characters are  *)
(* themselves.  SQL NULL / Python None is the one-element sequence None.   *)
(***************************************************************************)
EXTENDS Integers, Sequences, FiniteSets, TLC

VARIABLES
    druglist,           \* rows of table druglist in druglist.db
    conn,               \* load_data(): "sqlite3.Connection" or "None"
    messages,           \* st.session_state.messages (role, kind of content)
    selection_mode,     \* st.session_state.selection_mode
    selection_options,  \* st.session_state.selection_options
    original_query,     \* st.session_state.original_query
    last,               \* the locals of the handler that ran last
    norm_in,            \* normalize_text: the text given
    norm_out            \* normalize_text: results of successive applications

vars == << druglist, conn, messages, selection_mode, selection_options,
           original_query, last, norm_in, norm_out >>

-----------------------------------------------------------------------------
(* Bounds *)

MaxLen == 4
MaxRows == 2
MaxTurns == 2

-----------------------------------------------------------------------------
(* Characters and strings *)

None == << "<None>" >>

UpperCase == << "A", "B", "C", "D", "E", "F", "G", "H", "I", "J", "K", "L", "M",
                "N", "O", "P", "Q", "R", "S", "T", "U", "V", "W", "X", "Y", "Z" >>
LowerCase == << "a", "b", "c", "d", "e", "f", "g", "h", "i", "j", "k", "l", "m",
                "n", "o", "p", "q", "r", "s", "t", "u", "v", "w", "x", "y", "z" >>

Range(s) == { s[i] : i \in 1..Len(s) }

\* str.lower() on the upper-case letters
LowerOf ==
    [c \in Range(UpperCase) |->
        LowerCase[CHOOSE i \in 1..Len(UpperCase) : UpperCase[i] = c]]

\* str.lower() on one character
LowerChar(c) == IF c \in DOMAIN LowerOf THEN LowerOf[c] ELSE c

\* str.lower()
Lower(s) == [i \in 1..Len(s) |-> LowerChar(s[i])]

\* \s of the pattern, and what str.strip() removes
WhiteSpace == { " ", "\t", "\n" }

\* the character class [\s\(\)\[\]_/-] of the pattern
StripClass == WhiteSpace \cup { "(", ")", "[", "]", "_", "/", "-" }

\* the alternatives after the character class, in the pattern's order
DosageTokens ==
    << << "~ju", "~sa", "~je" >>,
       << "~jeong", "~je" >>,
       << "~jeong" >>,
       << "~yag" >>,
       << "~kaeb", "~syul" >>,
       << "~si", "~reob" >> >>

\* the first characters of the alternatives
DosageHeads == { DosageTokens[k][1] : k \in 1..Len(DosageTokens) }

StartsWith(s, t) == Len(t) <= Len(s) /\ SubSeq(s, 1, Len(t)) = t

\* Python's  t in s  for strings
Contains(s, t) ==
    \E i \in 1..(Len(s) - Len(t) + 1) : SubSeq(s, i, i + Len(t) - 1) = t

Drop(s, n) == SubSeq(s, n + 1, Len(s))

\* number of characters the pattern matches at the head of s (0: no match);
\* alternation takes the first alternative that matches
MatchLen(s) ==
    IF s = << >> THEN 0
    ELSE IF s[1] \in StripClass THEN 1
    ELSE IF s[1] \notin DosageHeads THEN 0
    ELSE LET matching == { k \in 1..Len(DosageTokens) :
                              StartsWith(s, DosageTokens[k]) }
         IN  IF matching = {} THEN 0
             ELSE Len(DosageTokens[CHOOSE k \in matching :
                                     \A j \in matching : k <= j])

\* re.sub(pattern, '', s): one left-to-right pass over non-overlapping matches
RECURSIVE ReSub(_)
ReSub(s) ==
    IF s = << >> THEN << >>
    ELSE LET n == MatchLen(s)
         IN  IF n > 0 THEN ReSub(Drop(s, n)) ELSE << s[1] >> \o ReSub(Tail(s))

RECURSIVE LStrip(_, _)
LStrip(s, chars) ==
    IF s /= << >> /\ s[1] \in chars THEN LStrip(Tail(s), chars) ELSE s

RECURSIVE RStrip(_, _)
RStrip(s, chars) ==
    IF s /= << >> /\ s[Len(s)] \in chars
    THEN RStrip(SubSeq(s, 1, Len(s) - 1), chars) ELSE s

\* str.strip(chars)
Strip(s, chars) == RStrip(LStrip(s, chars), chars)

\* the expression of lines 25, 39, 58, 59, 206
Clean(s) == Lower(Strip(ReSub(s), WhiteSpace))

\* normalize_text, registered as the SQL function normalize()
normalize_text(text) == IF text = None THEN None ELSE Clean(text)

-----------------------------------------------------------------------------
(* Ordering of strings: Python compares str by code point *)

\* the characters of the model in ascending code point order
CodePointOrder ==
    << "\t", "\n", " ", "!", "%", "'", "(", ")", "*", "-", ".", "/", ":" >>
    \o UpperCase \o << "[", "]", "_" >> \o LowerCase
    \o << "~reob", "~sa", "~syul", "~si", "~yag", "~jeong", "~je", "~ju", "~kaeb" >>

CodePointOf ==
    [c \in Range(CodePointOrder) |->
        CHOOSE i \in 1..Len(CodePointOrder) : CodePointOrder[i] = c]

CodePoint(c) == CodePointOf[c]

\* s < t for Python str
RECURSIVE StrLess(_, _)
StrLess(s, t) ==
    IF t = << >> THEN FALSE
    ELSE IF s = << >> THEN TRUE
    ELSE IF s[1] = t[1] THEN StrLess(Tail(s), Tail(t))
    ELSE CodePoint(s[1]) < CodePoint(t[1])

\* sorted(list(S)) for a set S of str
RECURSIVE sorted(_)
sorted(S) ==
    IF S = {} THEN << >>
    ELSE LET m == CHOOSE x \in S : \A y \in S \ {x} : StrLess(x, y)
         IN  << m >> \o sorted(S \ {m})

-----------------------------------------------------------------------------
(* The database: table druglist and the SQL of the two queries *)

\* a row of druglist; the columns are named as in the SQL
Row(pA, iA, pB, iB, d) ==
    [jepummyeongA |-> pA, seongbunmyeongA |-> iA,
     jepummyeongB |-> pB, seongbunmyeongB |-> iB, sangsejeongbo |-> d]

\* SQLite's  x LIKE p  on text: % is any run, _ any one character, ASCII
\* letters compare case-insensitively
RECURSIVE LikeMatch(_, _)
LikeMatch(p, x) ==
    IF p = << >> THEN x = << >>
    ELSE IF p[1] = "%"
         THEN LikeMatch(Tail(p), x) \/ (x /= << >> /\ LikeMatch(p, Tail(x)))
    ELSE IF x = << >> THEN FALSE
    ELSE /\ (p[1] = "_" \/ LowerChar(p[1]) = LowerChar(x[1]))
         /\ LikeMatch(Tail(p), Tail(x))

\* normalize(column) LIKE ?  as a WHERE condition (NULL LIKE p is not true)
NormalizeLike(value, pattern) ==
    LET normalized == normalize_text(value)
    IN  normalized /= None /\ LikeMatch(pattern, normalized)

\* f"%{cleaned}%"
Pattern(cleaned) == << "%" >> \o cleaned \o << "%" >>

\* what the exception of a failed pd.read_sql says
ReadSqlError == << "<", "s", "t", "r", "(", "e", ")", ">" >>

\* the rows of find_drug_info's SELECT DISTINCT
DrugInfoRows(search_pattern) ==
    { [jepummyeongA |-> r.jepummyeongA, seongbunmyeongA |-> r.seongbunmyeongA,
       jepummyeongB |-> r.jepummyeongB, seongbunmyeongB |-> r.seongbunmyeongB] :
      r \in { x \in druglist :
                \/ NormalizeLike(x.jepummyeongA, search_pattern)
                \/ NormalizeLike(x.seongbunmyeongA, search_pattern)
                \/ NormalizeLike(x.jepummyeongB, search_pattern)
                \/ NormalizeLike(x.seongbunmyeongB, search_pattern) } }

\* find_drug_info: the DataFrame (its rows; only sets are built from them)
\* and the number of queries sent to the database
find_drug_info(db_conn, query) ==
    LET cleaned_query == Clean(query)
    IN  IF Len(cleaned_query) < 2 THEN [rows |-> {}, sql_calls |-> 0]
        ELSE IF db_conn = "None" THEN [rows |-> {}, sql_calls |-> 1]
        ELSE [rows |-> DrugInfoRows(Pattern(cleaned_query)), sql_calls |-> 1]

\* InteractionWhere without the second, swapped, condition
InteractionWhereForwardOnly(x, pattern_A, pattern_B) ==
    /\ (NormalizeLike(x.jepummyeongA, pattern_A)
          \/ NormalizeLike(x.seongbunmyeongA, pattern_A))
    /\ (NormalizeLike(x.jepummyeongB, pattern_B)
          \/ NormalizeLike(x.seongbunmyeongB, pattern_B))

\* the WHERE clause of check_drug_interaction_flexible with its 8 parameters
\* (pattern_A, pattern_A, pattern_B, pattern_B, pattern_B, pattern_B,
\*  pattern_A, pattern_A)
InteractionWhere(x, pattern_A, pattern_B) ==
    \/ /\ (NormalizeLike(x.jepummyeongA, pattern_A)
             \/ NormalizeLike(x.seongbunmyeongA, pattern_A))
       /\ (NormalizeLike(x.jepummyeongB, pattern_B)
             \/ NormalizeLike(x.seongbunmyeongB, pattern_B))
    \/ /\ (NormalizeLike(x.jepummyeongA, pattern_B)
             \/ NormalizeLike(x.seongbunmyeongA, pattern_B))
       /\ (NormalizeLike(x.jepummyeongB, pattern_A)
             \/ NormalizeLike(x.seongbunmyeongB, pattern_A))

\* the rows of SELECT DISTINCT jepummyeongA, jepummyeongB, sangsejeongbo
InteractionRows(pattern_A, pattern_B) ==
    { [jepummyeongA |-> r.jepummyeongA, jepummyeongB |-> r.jepummyeongB,
       sangsejeongbo |-> r.sangsejeongbo] :
      r \in { x \in druglist : InteractionWhere(x, pattern_A, pattern_B) } }

\* every order in which a query without ORDER BY can return the rows S
Orderings(S) ==
    { f \in [1..Cardinality(S) -> S] :
        \A i, j \in 1..Cardinality(S) : i /= j => f[i] /= f[j] }

\* pd.read_sql for the interaction query: it raises, or returns the rows
read_sql(db_conn, pattern_A, pattern_B) ==
    IF db_conn = "None" THEN { [raised |-> TRUE, rows |-> << >>] }
    ELSE { [raised |-> FALSE, rows |-> f] :
           f \in Orderings(InteractionRows(pattern_A, pattern_B)) }

-----------------------------------------------------------------------------
(* check_drug_interaction_flexible *)

\* the risk levels, romanised
JEONGBO_EOBSEUM == << "~jeong", "~bo", " ", "~eobs", "~eum" >>
ORYU == << "~o", "~ryu" >>
ANJEON == << "~an", "~jeon" >>
JEONGBO_HWAGIN == << "~jeong", "~bo", " ", "~hwag", "~in" >>
WIHEOM == << "~wi", "~heom" >>
JUUI == << "~ju", "~ui" >>

\* the fixed messages; each is written as one character naming the text
TooShortMessage == << "<line 62: name too short, 2 or more characters>" >>
DbErrorMessage == << "<line 82: error while searching the database>" >>
TooManyMessage == << "<line 90: too many results, give a more exact name>" >>
NoKeywordMessage == << "<line 120: information exists, no keyword found>" >>

\* NoInteractionMessage naming the cleaned names
NoInteractionMessageCleaned(drug_A_query, drug_B_query) ==
    << "'" >> \o Clean(drug_A_query) \o << "'", "~wa", " ", "'" >>
    \o Clean(drug_B_query) \o << "'", " ", "<line 85: no interaction information>" >>

\* f"'{drug_A_query}'wa '{drug_B_query}' ganui sanghojagyong jeongboga eobsseubnida."
NoInteractionMessage(drug_A_query, drug_B_query) ==
    << "'" >> \o drug_A_query \o << "'", "~wa", " ", "'" >> \o drug_B_query
    \o << "'", " ", "<line 85: no interaction information>" >>

\* the emoji is written "!"
DangerPrefix == << "!", " ", "*", "*", "~wi", "~heom", "*", "*", ":", " " >>
CautionPrefix == << "!", " ", "*", "*", "~ju", "~ui", "*", "*", ":", " " >>

dangerous_keywords ==
    << <<"~sa", "~mang">>,
       <<"~heung", "~bun">>,
       <<"~jeong", "~sin", "~chag", "~ran">>,
       <<"~geum", "~gi">>,
       <<"~tu", "~yeo", " ", "~geum", "~ji">>,
       <<"~dog", "~seong", " ", "~jeung", "~ga">>,
       <<"~chi", "~myeong", "~jeog", "~in">>,
       <<"~sim", "~gag", "~han">>,
       <<"~yu", "~san", " ", "~san", "~seong", "~jeung">>,
       <<"~go", "~kal", "~ryum", "~hyeol", "~jeung">>,
       <<"~sim", "~sil", "~seong", " ", "~bu", "~jeong", "~maeg">>,
       <<"~wi", "~heom", "~seong", " ", "~jeung", "~ga">>,
       <<"~wi", "~heom", " ", "~jeung", "~ga">>,
       <<"~sim", "~jang", " ", "~bu", "~jeong", "~maeg">>,
       <<"Q", "T", "~gan", "~gyeog", " ", "~yeon", "~jang", " ", "~wi", "~heom", " ", "~jeung", "~ga">>,
       <<"Q", "T", "~yeon", "~jang">>,
       <<"~sim", "~bu", "~jeong", "~maeg">>,
       <<"~jung", "~dae", "~han">>,
       <<"~sim", "~jang", " ", "~mo", "~ni", "~teo", "~ring">>,
       <<"~byeong", "~yong", "~geum", "~gi">>,
       <<"T", "o", "r", "s", "a", "d", "e", " ", "d", "e", " ", "p", "o", "i", "n", "t", "e", "s", " ", "~wi", "~heom", " ", "~jeung", "~ga">>,
       <<"~wi", "~heom", "~i", " ", "~jeung", "~ga", "~ham">>,
       <<"~yag", "~mul", "~i", "~sang", "~ban", "~eung", " ", "~bal", "~saeng", " ", "~wi", "~heom">>,
       <<"~dog", "~seong">>,
       <<"~heo", "~hyeol">>,
       <<"~hyeol", "~gwan", "~gyeong", "~ryeon">> >>

caution_keywords ==
    << <<"~chi", "~ryo", " ", "~hyo", "~gwa", "~ga", " ", "~je", "~han", "~jeog">>,
       <<"~jung", "~jeung", "~ui", " ", "~wi", "~jang", "~gwan", "~gye", " ", "~i", "~sang", "~ban", "~eung">>,
       <<"A", "l", "f", "u", "z", "o", "s", "i", "n", " ", "~hyeol", "~jung", "~nong", "~do", " ", "~jeung", "~ga">>,
       <<"~yang", "~jjog", " ", "~yag", "~mul", " ", "~mo", "~du", " ", "~hyeol", "~jang", "~nong", "~do", " ", "~sang", "~seung", " ", "~ga", "~neung">>,
       <<"A", "m", "i", "o", "d", "a", "r", "o", "n", "e", " ", "~hyeol", "~jung", "~nong", "~do", " ", "~jeung", "~ga">>,
       <<"~hyeol", "~jung", "~nong", "~do", " ", "~jeung", "~ga">>,
       <<"~hoeng", "~mun", "~geun", "~yung", "~hae", "~wa", " ", "~gat", "~eun", " ", "~jung", "~jeung", "~ui", " ", "~geun", "~yug", "~i", "~sang", " ", "~bo", "~go">>,
       <<"~hyeol", "~jang", " ", "~nong", "~do", " ", "~jeung", "~ga">>,
       <<"F", "i", "n", "e", "r", "e", "n", "o", "n", "e", " ", "~hyeol", "~jung", "~nong", "~do", "~ui", " ", "~hyeon", "~jeo", "~han", " ", "~jeung", "~ga", "~ga", " ", "~ye", "~sang", "~doem">> >>

\* str(detail)
Str(detail) == IF detail = None THEN << "N", "o", "n", "e" >> ELSE detail

\* some keyword of the list is in detail_str (the inner for ... break)
AnyKeywordIn(keywords, detail_str) ==
    \E k \in 1..Len(keywords) : Contains(detail_str, keywords[k])

\* Unique keeping the first value only
UniqueFirstOnly(s) == IF s = << >> THEN << >> ELSE << s[1] >>

\* the values of a sequence in first-seen order:
\* drop_duplicates(subset=[sangsejeongbo]) then [sangsejeongbo].unique()
RECURSIVE Unique(_)
Unique(s) ==
    IF s = << >> THEN << >>
    ELSE LET init == Unique(SubSeq(s, 1, Len(s) - 1))
         IN  IF s[Len(s)] \in Range(init) THEN init ELSE Append(init, s[Len(s)])

\* DetailLoop where a caution keyword sets the level whatever it was
RECURSIVE DetailLoopNotSticky(_, _, _)
DetailLoopNotSticky(details, i, acc) ==
    IF i > Len(details) THEN acc
    ELSE LET detail_str == Str(details[i])
         IN  IF AnyKeywordIn(dangerous_keywords, detail_str)
             THEN DetailLoopNotSticky(details, i + 1,
                    [risk_level |-> WIHEOM,
                     reasons |-> Append(acc.reasons, DangerPrefix \o detail_str)])
             ELSE IF AnyKeywordIn(caution_keywords, detail_str)
             THEN DetailLoopNotSticky(details, i + 1,
                    [risk_level |-> JUUI,
                     reasons |-> Append(acc.reasons, CautionPrefix \o detail_str)])
             ELSE DetailLoopNotSticky(details, i + 1, acc)

\* the loop of lines 101-117 from detail number i on; acc is
\* [risk_level, reasons]
RECURSIVE DetailLoop(_, _, _)
DetailLoop(details, i, acc) ==
    IF i > Len(details) THEN acc
    ELSE LET detail_str == Str(details[i])
         IN  IF AnyKeywordIn(dangerous_keywords, detail_str)
             THEN DetailLoop(details, i + 1,
                    [risk_level |-> WIHEOM,
                     reasons |-> Append(acc.reasons, DangerPrefix \o detail_str)])
             ELSE IF AnyKeywordIn(caution_keywords, detail_str)
             THEN DetailLoop(details, i + 1,
                    [risk_level |-> IF acc.risk_level /= WIHEOM THEN JUUI
                                    ELSE acc.risk_level,
                     reasons |-> Append(acc.reasons, CautionPrefix \o detail_str)])
             ELSE DetailLoop(details, i + 1, acc)

\* sep.join(parts)
RECURSIVE Join(_, _)
Join(parts, sep) ==
    IF parts = << >> THEN << >>
    ELSE IF Len(parts) = 1 THEN parts[1]
    ELSE parts[1] \o sep \o Join(Tail(parts), sep)

\* TooManyProducts with the threshold off by one
TooManyProductsOverThree(unique_products) == Cardinality(unique_products) > 3

\* line 88
TooManyProducts(unique_products) == Cardinality(unique_products) > 2

\* lines 84-122: the verdict for the rows read_sql returned
Verdict(drug_A_query, drug_B_query, interactions) ==
    IF interactions = << >>
    THEN [risk |-> ANJEON,
          explanation |-> NoInteractionMessage(drug_A_query, drug_B_query),
          reasons |-> << >>]
    ELSE
    LET unique_products ==
            { interactions[i].jepummyeongA : i \in 1..Len(interactions) }
            \cup { interactions[i].jepummyeongB : i \in 1..Len(interactions) }
        details ==
            Unique([i \in 1..Len(interactions) |-> interactions[i].sangsejeongbo])
        looped == DetailLoop(details, 1, [risk_level |-> ANJEON, reasons |-> << >>])
    IN  IF TooManyProducts(unique_products)
        THEN [risk |-> JEONGBO_HWAGIN, explanation |-> TooManyMessage,
              reasons |-> << >>]
        ELSE IF looped.reasons = << >>
        THEN [risk |-> JEONGBO_HWAGIN, explanation |-> NoKeywordMessage,
              reasons |-> << NoKeywordMessage >>]
        ELSE [risk |-> looped.risk_level,
              explanation |-> Join(looped.reasons, << "\n", "\n" >>),
              reasons |-> looped.reasons]

\* OnReadSql putting the exception's text into the message
OnReadSqlShowsError(drug_A_query, drug_B_query, fetched) ==
    IF fetched.raised
    THEN [risk |-> ORYU, explanation |-> DbErrorMessage \o ReadSqlError,
          reasons |-> << >>, sql_calls |-> 1, raised |-> FALSE,
          interactions |-> << >>]
    ELSE Verdict(drug_A_query, drug_B_query, fetched.rows)
         @@ [sql_calls |-> 1, raised |-> FALSE, interactions |-> fetched.rows]

\* what the try/except of lines 67-82 does with the outcome of pd.read_sql
OnReadSql(drug_A_query, drug_B_query, fetched) ==
    IF fetched.raised
    THEN [risk |-> ORYU, explanation |-> DbErrorMessage, reasons |-> << >>,
          sql_calls |-> 1, raised |-> FALSE, interactions |-> << >>]
    ELSE Verdict(drug_A_query, drug_B_query, fetched.rows)
         @@ [sql_calls |-> 1, raised |-> FALSE, interactions |-> fetched.rows]

\* TooShort with "and" for "or"
TooShortBothOnly(cleaned_A, cleaned_B) == Len(cleaned_A) < 2 /\ Len(cleaned_B) < 2

\* the early return of lines 61-62
TooShort(cleaned_A, cleaned_B) == Len(cleaned_A) < 2 \/ Len(cleaned_B) < 2

\* check_drug_interaction_flexible: every result the call can have (one for
\* each outcome of pd.read_sql): risk and explanation as returned, reasons
\* as the list stood, the queries sent, whether an exception left the call,
\* and the rows read
check_drug_interaction_flexible(db_conn, drug_A_query, drug_B_query) ==
    LET cleaned_A == Clean(drug_A_query)
        cleaned_B == Clean(drug_B_query)
    IN  IF TooShort(cleaned_A, cleaned_B)
        THEN { [risk |-> JEONGBO_EOBSEUM, explanation |-> TooShortMessage,
                reasons |-> << >>, sql_calls |-> 0, raised |-> FALSE,
                interactions |-> << >>] }
        ELSE { OnReadSql(drug_A_query, drug_B_query, fetched) :
               fetched \in read_sql(db_conn, Pattern(cleaned_A), Pattern(cleaned_B)) }

-----------------------------------------------------------------------------
(* The chat page: session state and the two handlers *)

\* the handler locals before any handler ran
Idle == [op |-> "none"]

pd_notna(v) == v /= None

\* re.search(re.escape(option), name, re.IGNORECASE)
SearchIgnoreCase(option, name) == Contains(Lower(name), Lower(option))

\* lines 161-171 and 234-242: the ingredients of the rows whose product
\* column holds the option
Components(rows, option) ==
    LET collected ==
            { r.seongbunmyeongA : r \in
                { x \in rows : /\ pd_notna(x.jepummyeongA)
                               /\ SearchIgnoreCase(option, x.jepummyeongA)
                               /\ pd_notna(x.seongbunmyeongA) } }
            \cup
            { r.seongbunmyeongB : r \in
                { x \in rows : /\ pd_notna(x.jepummyeongB)
                               /\ SearchIgnoreCase(option, x.jepummyeongB)
                               /\ pd_notna(x.seongbunmyeongB) } }
    IN  { d \in collected :
            pd_notna(d) /\ Len(Str(d)) > 1 /\ Str(d) /= << "n", "a", "n" >> }

\* ProductMatches without the containment test
ProductMatchesNotNull(value, target_clean) == pd_notna(value)

\* lines 210-212 and 216-218: the product column, lower-cased and cleaned,
\* holds the cleaned query, and the column is not null
ProductMatches(value, target_clean) ==
    /\ Contains(ReSub(Lower(Str(value))), target_clean)
    /\ pd_notna(value)

\* lines 205-221: the candidate products of an ingredient question
FoundProducts(rows, drug_name) ==
    LET target_clean == Clean(drug_name)
    IN  sorted({ r.jepummyeongA : r \in
                   { x \in rows : ProductMatches(x.jepummyeongA, target_clean) } }
               \cup
               { r.jepummyeongB : r \in
                   { x \in rows : ProductMatches(x.jepummyeongB, target_clean) } })

\* match.group(n).strip('() ')
StripGroup(g) == Strip(g, { "(", ")", " " })

\* the entries of st.session_state.messages: the role and what kind of text
\* the content is (the texts themselves are the handler's locals, see last)
PromptMessage == [role |-> "user", content |-> "prompt"]
SelectionMessage == [role |-> "user", content |-> "option + seontaeg"]
AssistantMessage == [role |-> "assistant", content |-> "reply"]

\* the prompts typed so far
Prompts == { i \in 1..Len(messages) : messages[i] = PromptMessage }

\* CanPrompt with the chat input always shown
CanPromptAlways == Cardinality(Prompts) < MaxTurns

\* the chat input is shown (line 185) and the session has turns left
CanPrompt == ~selection_mode /\ Cardinality(Prompts) < MaxTurns

\* lines 197-252: the prompt matched match_component with group(1) = g
IngredientQuestion(g) ==
    LET drug_name == StripGroup(g)
        results == find_drug_info(conn, drug_name)
        found_products == IF results.rows = {} THEN << >>
                          ELSE FoundProducts(results.rows, drug_name)
        reply == IF drug_name = << >> THEN "line 252: give a drug name"
                 ELSE IF results.rows = {} THEN "line 250: not found"
                 ELSE IF Len(found_products) > 1 THEN "line 225: choose a product"
                 ELSE IF Len(found_products) = 1 THEN "line 243: ingredients"
                 ELSE "line 247: no exact product"
    IN  /\ CanPrompt
        /\ messages' = messages \o << PromptMessage, AssistantMessage >>
        /\ IF drug_name /= << >> /\ Len(found_products) > 1
           THEN /\ selection_mode' = TRUE
                /\ selection_options' = found_products
                /\ original_query' = drug_name
           ELSE UNCHANGED << selection_mode, selection_options, original_query >>
        /\ last' = [op |-> "ingredient", drug_name |-> drug_name,
                    called |-> drug_name /= << >>,
                    results |-> IF drug_name = << >> THEN {} ELSE results.rows,
                    sql_calls |-> IF drug_name = << >> THEN 0 ELSE results.sql_calls,
                    found_products |-> IF drug_name = << >> THEN << >>
                                       ELSE found_products,
                    reply_message |-> reply]
        /\ UNCHANGED << druglist, conn, norm_in, norm_out >>

\* lines 255-275: the prompt matched an interaction pattern with
\* group(1) = g1 and group(2) = g2
InteractionQuestion(g1, g2) ==
    LET drug_A == StripGroup(g1)
        drug_B == StripGroup(g2)
    IN  /\ CanPrompt
        /\ IF drug_A /= << >> /\ drug_B /= << >>
           THEN \E res \in check_drug_interaction_flexible(conn, drug_A, drug_B) :
                  last' = [op |-> "interaction", drug_A |-> drug_A,
                           drug_B |-> drug_B, called |-> TRUE,
                           reply_message |-> IF res.risk = JEONGBO_EOBSEUM
                                             THEN "line 271: cannot analyse"
                                             ELSE "line 273: risk"] @@ res
           ELSE last' = [op |-> "interaction", drug_A |-> drug_A,
                         drug_B |-> drug_B, called |-> FALSE,
                         reply_message |-> "line 275: give two drug names"]
        /\ messages' = messages \o << PromptMessage, AssistantMessage >>
        /\ UNCHANGED << druglist, conn, selection_mode, selection_options,
                        original_query, norm_in, norm_out >>

\* lines 277-278: the prompt matched no pattern
UnrecognizedQuestion ==
    /\ CanPrompt
    /\ messages' = messages \o << PromptMessage, AssistantMessage >>
    /\ last' = [op |-> "unrecognized", reply_message |-> "line 278: not understood"]
    /\ UNCHANGED << druglist, conn, selection_mode, selection_options,
                    original_query, norm_in, norm_out >>

\* lines 145-182: button i of the selection is clicked
SelectOption(i) ==
    /\ selection_mode
    /\ i \in 1..Len(selection_options)
    /\ LET option == selection_options[i]
           results == find_drug_info(conn, option)
           components == Components(results.rows, option)
       IN  last' = [op |-> "select", option |-> option,
                    sql_calls |-> results.sql_calls, components |-> components,
                    final_response |-> IF components /= {}
                                       THEN "line 174: ingredients"
                                       ELSE "line 176: no ingredient information"]
    /\ messages' = messages \o << SelectionMessage, AssistantMessage >>
    /\ selection_mode' = FALSE
    /\ selection_options' = << >>
    /\ UNCHANGED << druglist, conn, original_query, norm_in, norm_out >>

-----------------------------------------------------------------------------
(* The databases and the prompts explored *)

Ty == << "T", "y" >>
TyE == << "T", "y", " ", "E" >>
As == << "A", "s", "~jeong" >>
ac == << "a", "c" >>
sa == << "s", "a" >>

\* details: with a danger keyword, with a caution keyword, with both, with none
dDanger == << "~byeong", "~yong", "~geum", "~gi" >>
dCaution == << "~hyeol", "~jung", "~nong", "~do", " ", "~jeung", "~ga" >>
dBoth == << "~dog", "~seong", " " >> \o dCaution
dPlain == << "o", "k" >>

RowUniverse ==
    { Row(Ty, ac, As, sa, dBoth),
      Row(TyE, ac, As, sa, dCaution),
      Row(As, sa, Ty, ac, dCaution),
      Row(Ty, None, As, sa, dPlain),
      Row(None, ac, As, sa, dDanger) }

\* the texts a pattern can capture from the prompts explored
Groups ==
    { << "t", "y" >>, << "(", "T", "y", " ", "E", ")" >>, << "a", "s" >>,
      << "a", "c" >>, << "t", "~jeong" >>, << "(", " ", ")" >> }

\* line 129
Greeting == AssistantMessage

Init ==
    /\ druglist \in { S \in SUBSET RowUniverse : Cardinality(S) <= MaxRows }
    /\ conn \in { "sqlite3.Connection", "None" }
    /\ messages = << Greeting >>
    /\ selection_mode = FALSE
    /\ selection_options = << >>
    /\ original_query = << >>
    /\ last = Idle
    /\ norm_in = << >>
    /\ norm_out = << >>

Next ==
    \/ \E g \in Groups : IngredientQuestion(g)
    \/ \E g1, g2 \in Groups : InteractionQuestion(g1, g2)
    \/ UnrecognizedQuestion
    \/ \E i \in 1..Len(selection_options) : SelectOption(i)

Spec == Init /\ [][Next]_vars

-----------------------------------------------------------------------------
(* normalize_text as a pure function, on every text up to MaxLen *)

NormAlphabet == { " ", "-", "a", "A", "~ju", "~sa", "~je", "~jeong", "~kaeb", "~syul" }

RECURSIVE Texts(_)
Texts(n) ==
    IF n = 0 THEN { << >> }
    ELSE Texts(n - 1) \cup
         { Append(t, c) : t \in { u \in Texts(n - 1) : Len(u) = n - 1 },
                          c \in NormAlphabet }

InitNormalize ==
    /\ norm_in \in Texts(MaxLen) \cup { None }
    /\ norm_out = << >>
    /\ druglist = {}
    /\ conn = "None"
    /\ messages = << >>
    /\ selection_mode = FALSE
    /\ selection_options = << >>
    /\ original_query = << >>
    /\ last = Idle

Normalize ==
    /\ Len(norm_out) < 2
    /\ norm_out' = Append(norm_out,
                          normalize_text(IF norm_out = << >> THEN norm_in
                                         ELSE norm_out[Len(norm_out)]))
    /\ UNCHANGED << druglist, conn, messages, selection_mode, selection_options,
                    original_query, last, norm_in >>

NextNormalize == Normalize

SpecNormalize == InitNormalize /\ [][NextNormalize]_vars

\* C5: normalization is idempotent: normalize(normalize(x)) = normalize(x)
\* for every text x
NormalizeIdempotent ==
    Len(norm_out) = 2 => norm_out[2] = norm_out[1]

-----------------------------------------------------------------------------
(* Properties of the chat page (under Spec) *)

Classified == last.op = "interaction" /\ last.called
Resolved == last.op = "ingredient" /\ last.called

\* the values of the two product columns of the rows read
ProductValues(interactions) ==
    { interactions[i].jepummyeongA : i \in 1..Len(interactions) }
    \cup { interactions[i].jepummyeongB : i \in 1..Len(interactions) }

DetailValues(interactions) ==
    { interactions[i].sangsejeongbo : i \in 1..Len(interactions) }

HasDanger(d) == AnyKeywordIn(dangerous_keywords, Str(d))
HasCaution(d) == AnyKeywordIn(caution_keywords, Str(d))

\* C1: a query whose cleaned form has fewer than 2 characters gets an empty
\* lookup result and no query is sent to the database; classification with
\* such a name on either side returns JEONGBO_EOBSEUM, whatever the table holds
ShortQueryRejected ==
    /\ (Resolved /\ Len(Clean(last.drug_name)) < 2)
          => /\ last.results = {}
             /\ last.found_products = << >>
             /\ last.sql_calls = 0
    /\ (Classified /\ (Len(Clean(last.drug_A)) < 2 \/ Len(Clean(last.drug_B)) < 2))
          => /\ last.risk = JEONGBO_EOBSEUM
             /\ last.sql_calls = 0

\* a name of two characters whose cleaned form has one, beside a name the
\* table matches
ShortQueryWitness ==
    /\ Classified
    /\ conn /= "None"
    /\ Len(last.drug_A) >= 2 /\ Len(Clean(last.drug_A)) < 2
    /\ Len(Clean(last.drug_B)) >= 2
    /\ DrugInfoRows(Pattern(Clean(last.drug_B))) /= {}
    /\ last.risk = JEONGBO_EOBSEUM

\* C2: classifying (B, A) reads the same rows and returns the same level as
\* classifying (A, B)
ClassifySymmetric ==
    Classified =>
        \A swapped \in check_drug_interaction_flexible(conn, last.drug_B, last.drug_A) :
            /\ swapped.risk = last.risk
            /\ Range(swapped.interactions) = Range(last.interactions)

\* a row matched only with the arguments swapped against its columns
ClassifySymmetricWitness ==
    /\ Classified
    /\ last.risk \in { WIHEOM, JUUI }
    /\ Clean(last.drug_A) /= Clean(last.drug_B)
    /\ \A x \in druglist :
          ~InteractionWhereForwardOnly(x, Pattern(Clean(last.drug_A)),
                                       Pattern(Clean(last.drug_B)))

\* C3 as stated: a row read for the pair has a danger keyword in its detail
\* => the level is WIHEOM and the explanation holds the detail
DangerRowGivesDanger ==
    Classified =>
        \A d \in DetailValues(last.interactions) :
            HasDanger(d) => /\ last.risk = WIHEOM
                            /\ Contains(last.explanation, Str(d))

\* C3 amended: the same, when the rows read hold at most 2 distinct values
\* in their product columns
DangerRowGivesDangerUnlessTooMany ==
    (Classified /\ Cardinality(ProductValues(last.interactions)) <= 2) =>
        \A d \in DetailValues(last.interactions) :
            HasDanger(d) => /\ last.risk = WIHEOM
                            /\ Contains(last.explanation, Str(d))

\* the danger detail is read after a caution detail
DangerRowWitness ==
    /\ Classified
    /\ Len(last.interactions) >= 2
    /\ Cardinality(ProductValues(last.interactions)) <= 2
    /\ HasCaution(last.interactions[1].sangsejeongbo)
    /\ ~HasDanger(last.interactions[1].sangsejeongbo)
    /\ HasDanger(last.interactions[2].sangsejeongbo)
    /\ last.risk = WIHEOM

\* C4: rows with more than 2 distinct product names => JEONGBO_HWAGIN with
\* the too-many message, and no detail was classified
TooManyProductsAmbiguous ==
    (Classified /\ Cardinality(ProductValues(last.interactions) \ { None }) > 2) =>
        /\ last.risk = JEONGBO_HWAGIN
        /\ last.explanation = TooManyMessage
        /\ last.reasons = << >>

\* three product names and a detail with a danger keyword
TooManyProductsWitness ==
    /\ Classified
    /\ Cardinality(ProductValues(last.interactions) \ { None }) = 3
    /\ \E d \in DetailValues(last.interactions) : HasDanger(d)
    /\ last.risk = JEONGBO_HWAGIN

\* C6: both cleaned names have 2 or more characters and the query returns no
\* row => ANJEON, with one message quoting the two names as given
NoRowsMeansSafe ==
    (/\ Classified
     /\ Len(Clean(last.drug_A)) >= 2 /\ Len(Clean(last.drug_B)) >= 2
     /\ conn /= "None"
     /\ \A x \in druglist : ~InteractionWhere(x, Pattern(Clean(last.drug_A)),
                                              Pattern(Clean(last.drug_B))))
    => /\ last.risk = ANJEON
       /\ StartsWith(last.explanation,
                     << "'" >> \o last.drug_A \o << "'", "~wa", " ", "'" >>
                     \o last.drug_B \o << "'" >>)
       /\ ~Contains(last.explanation, << "\n", "\n" >>)

\* no row for a name that differs from its cleaned form, in a table with rows
NoRowsWitness ==
    /\ Classified
    /\ conn /= "None"
    /\ druglist /= {}
    /\ last.risk = ANJEON
    /\ last.drug_A /= Clean(last.drug_A)
    /\ last.sql_calls = 1

\* the product names of the table whose normalised form holds the cleaned query
Candidates(drug_name) ==
    { p \in { r.jepummyeongA : r \in druglist } \cup { r.jepummyeongB : r \in druglist } :
        p /= None /\ Contains(normalize_text(p), Clean(drug_name)) }

\* C7: for a query of cleaned length >= 2 on a working connection, the
\* candidates are exactly the non-null product names of the table whose
\* normalised form holds the cleaned query, each once, in ascending order
ResolverExact ==
    (Resolved /\ Len(Clean(last.drug_name)) >= 2 /\ conn /= "None") =>
        /\ Range(last.found_products) = Candidates(last.drug_name)
        /\ Len(last.found_products) = Cardinality(Candidates(last.drug_name))
        /\ \A i, j \in 1..Len(last.found_products) :
              i < j => StrLess(last.found_products[i], last.found_products[j])

\* two candidates, and a row of the result holds a product that is none
ResolverWitness ==
    /\ Resolved
    /\ Len(last.found_products) = 2
    /\ \E r \in last.results :
          /\ r.jepummyeongB /= None
          /\ r.jepummyeongB \notin Range(last.found_products)

\* C8: the query fails => ORYU with the fixed message, nothing of the
\* exception's text in it, one query sent, no exception leaves the call
StoreFailureGivesError ==
    (/\ Classified
     /\ Len(Clean(last.drug_A)) >= 2 /\ Len(Clean(last.drug_B)) >= 2
     /\ conn = "None")
    => /\ last.risk = ORYU
       /\ last.explanation = << "<line 82: error while searching the database>" >>
       /\ ~Contains(last.explanation, ReadSqlError)
       /\ last.sql_calls = 1
       /\ ~last.raised

StoreFailureWitness ==
    /\ Classified
    /\ conn = "None"
    /\ druglist /= {}
    /\ last.sql_calls = 1
    /\ last.risk = ORYU

SelectionModeDiscipline ==
    /\ [](selection_mode <=> Len(selection_options) >= 2)
    /\ [][ /\ (~selection_mode /\ selection_mode') =>
                /\ last'.op = "ingredient"
                /\ Len(last'.found_products) > 1
                /\ selection_options' = last'.found_products
           /\ selection_mode =>
                /\ last'.op = "select"
                /\ messages' = messages \o << SelectionMessage, AssistantMessage >>
                /\ ~selection_mode'
                /\ selection_options' = << >> ]_vars

\* a prompt is taken after an option was clicked
SelectionModeWitness ==
    /\ Len(messages) = 7
    /\ messages[4] = SelectionMessage
    /\ messages[6] = PromptMessage
    /\ ~selection_mode

====
